---------------------------- MODULE Spec2Model ----------------------------
(***************************************************************************)
(* RemoteRelay (src/src/index.ts): an MCP server whose tool handlers run   *)
(* shell commands on a remote host, either one-shot over ssh (sshExec) or  *)
(* inside a persistent tmux session with a capture-and-poll protocol       *)
(* (tmuxExec).                                                             *)
(*                                                                         *)
(* Strings are sequences of one-character strings.  Every await of the     *)
(* source is a suspension point: a handler is one action per stretch of    *)
(* code between two awaits, and the remote effect of an awaited ssh call   *)
(* happens in the action that resumes the handler.                         *)
(***************************************************************************)
EXTENDS Integers, Sequences, FiniteSets, TLC

(***************************************************************************)
(* Bounds of the model.                                                    *)
(***************************************************************************)
NumCalls == 2          \* tool calls that may be in flight together
TickMs == 250          \* granularity at which the clock is observed, in ms
MaxClock == 750        \* the clock stops advancing here
MaxTimeout == 300      \* the timeout a caller passes to remote_bash: shorter than a poll interval
SlowTimeout == 600     \* a timeout that spans more than one poll interval
MaxFileLen == 4        \* longest file content the remote host holds

(***************************************************************************)
(* Program constants.                                                      *)
(***************************************************************************)
DefaultTimeout == 60000
PollInterval == 500
TimeoutExitCode == 124

Calls == 1..NumCalls

\* null of `string | null`, and an optional argument that was left out
Null == <<"null">>
\* a child process that closed with no exit status (killed by a signal)
NoStatus == -1

(***************************************************************************)
(* Strings                                                                 *)
(***************************************************************************)
IsWs(ch) == ch \in {" ", "\n"}

RECURSIVE TrimLeft(_)
TrimLeft(s) ==
  IF s = <<>> THEN <<>>
  ELSE IF IsWs(Head(s)) THEN TrimLeft(Tail(s)) ELSE s

RECURSIVE TrimRight(_)
TrimRight(s) ==
  IF s = <<>> THEN <<>>
  ELSE IF IsWs(s[Len(s)]) THEN TrimRight(SubSeq(s, 1, Len(s) - 1)) ELSE s

\* String.prototype.trim
Trim(s) == TrimRight(TrimLeft(s))

\* filePath.startsWith("/")
StartsWithSlash(p) == Len(p) > 0 /\ p[1] = "/"

\* truthiness of a `string | null` value: null and "" are falsy
Truthy(s) == s # Null /\ s # <<>>

Prefixes(s) == { SubSeq(s, 1, k) : k \in 0..Len(s) }

(***************************************************************************)
(* Path resolution of the handlers                                         *)
(***************************************************************************)
\* a resolution that takes no notice of the working directory
ResolveAsGiven(filePath, cur) == filePath

\* remote_read, remote_write, remote_edit, remote_cd
ResolvePath(filePath, cur) ==
  IF ~StartsWithSlash(filePath) /\ Truthy(cur)
  THEN cur \o <<"/">> \o filePath
  ELSE filePath

\* remote_glob, remote_grep, remote_ls: searchPath || currentWorkingDirectory || "."
DefaultDir(searchPath, cur) ==
  IF Truthy(searchPath) THEN searchPath
  ELSE IF Truthy(cur) THEN cur ELSE <<".">>

(***************************************************************************)
(* The remote host                                                         *)
(***************************************************************************)
\* the directory an ssh login shell starts in
Home == <<"/", "h">>

\* the absolute path the remote shell gives a path of a one-shot command
RemoteAbs(p) ==
  IF StartsWithSlash(p) THEN p
  ELSE IF p = <<".">> \/ p = <<>> THEN Home
  ELSE Home \o <<"/">> \o p

(***************************************************************************)
(* sshExec: what the Connector hands back                                  *)
(***************************************************************************)
\* proc.on("close"): resolve; a missing exit status becomes 0
sshClose(status, out, err) ==
  [rejected |-> FALSE, status |-> status,
   exitCode |-> IF status = NoStatus THEN 0 ELSE status,
   stdout |-> out, stderr |-> err]

\* proc.on("error"): reject
sshError ==
  [rejected |-> TRUE, status |-> NoStatus, exitCode |-> NoStatus,
   stdout |-> <<>>, stderr |-> <<>>]

\* the process is killed before it exits: no status, and one of `outs` on stdout
sshKilled(outs) == { sshClose(NoStatus, out, <<>>) : out \in outs }

NoResult == sshClose(0, <<>>, <<>>)

VARIABLES
  cwd,        \* currentWorkingDirectory
  verified,   \* history: cwd was last set from a probe that exited 0 in an existing directory
  pc,         \* per call: where its handler is suspended
  op,         \* per call: the tool
  arg,        \* per call: the request's fields
  loc,        \* per call: the handler's local variables
  resp,       \* per call: the response returned
  clock,      \* Date.now()
  dirs,       \* remote host: the directories that exist
  files,      \* remote host: file path -> content
  tmp,        \* remote host: the temporary files of tmuxExec, name -> content
  session,    \* remote host: the tmux session: whether it exists, how many sessions the
              \* host holds under its name, and the commands typed into it
  shellDir    \* remote host: working directory of the shell inside the session

vars == <<cwd, verified, pc, op, arg, loc, resp, clock, dirs, files, tmp, session, shellDir>>
callVars == <<pc, op, arg, loc, resp>>
remoteVars == <<dirs, files, tmp, session, shellDir>>


(***************************************************************************)
(* Records of a call                                                       *)
(***************************************************************************)
NoArg ==
  [path |-> Null, command |-> [exit |-> 0, out |-> <<>>, cd |-> Null], timeout |-> 0,
   old |-> <<>>, new |-> <<>>, content |-> <<>>, offset |-> 0, limit |-> 0]

NoLoc ==
  [path |-> Null, cwdSeen |-> Null, result |-> NoResult,
   timeout |-> 0, outTok |-> 0, exitTok |-> 0, start |-> 0, wake |-> 0,
   check |-> <<>>, prefix |-> Null, delivered |-> FALSE, typed |-> 0,
   ret |-> [stdout |-> <<>>, stderr |-> <<>>, exitCode |-> -1],
   fin |-> -1, finCode |-> 0, finOut |-> <<>>, echoed |-> -1,
   content |-> <<>>, newContent |-> <<>>, disk |-> Null, fetchStatus |-> NoStatus,
   wrote |-> FALSE, early |-> FALSE, ran |-> <<>>]

Response(isError, kind, text) ==
  [isError |-> isError, kind |-> kind, text |-> text, exitCode |-> 0, cwdShown |-> Null]

NoResp == Response(FALSE, "none", <<>>)

\* the handler of call c is entered: its synchronous prefix runs up to the first await
Enter(c, tool, a, l, at) ==
  /\ pc[c] = "idle"
  /\ pc' = [pc EXCEPT ![c] = at]
  /\ op' = [op EXCEPT ![c] = tool]
  /\ arg' = [arg EXCEPT ![c] = a]
  /\ loc' = [loc EXCEPT ![c] = l]
  /\ resp' = [resp EXCEPT ![c] = NoResp]

\* the handler of call c resumes after an await and suspends again at `at`
Resume(c, l, at) ==
  /\ pc' = [pc EXCEPT ![c] = at]
  /\ loc' = [loc EXCEPT ![c] = l]
  /\ UNCHANGED <<op, arg, resp>>

\* the handler of call c returns response r
Return(c, l, r) ==
  /\ pc' = [pc EXCEPT ![c] = "done"]
  /\ loc' = [loc EXCEPT ![c] = l]
  /\ resp' = [resp EXCEPT ![c] = r]
  /\ UNCHANGED <<op, arg>>

\* a rejection that no catch block turns into a response
Uncaught == Response(FALSE, "none", <<>>)

\* the catch block every handler but remote_pwd has
CatchError == Response(TRUE, "error", <<>>)

\* the response reaches the client; the slot takes the next request
Respond(c) ==
  /\ pc[c] = "done"
  /\ \A i \in 1..Len(session.queue) : session.queue[i].owner # c
  /\ pc' = [pc EXCEPT ![c] = "idle"]
  /\ op' = [op EXCEPT ![c] = "none"]
  /\ arg' = [arg EXCEPT ![c] = NoArg]
  /\ loc' = [loc EXCEPT ![c] = NoLoc]
  /\ resp' = [resp EXCEPT ![c] = NoResp]
  /\ UNCHANGED <<cwd, verified, clock, remoteVars>>

(***************************************************************************)
(* remote_cd                                                               *)
(***************************************************************************)
\* `cd <target> && pwd` in a login shell
CdProbeOutcomes(target) ==
  LET canon == RemoteAbs(target)
      normal == IF canon \in dirs
                THEN sshClose(0, canon \o <<"\n">>, <<>>)
                ELSE sshClose(1, <<>>, <<"!">>)
  IN {normal, sshError} \cup sshKilled({<<>>, normal.stdout})

\* the value currentWorkingDirectory has once the probe's result is handled
CdAssignUnchecked(r, cur) ==
  IF r.rejected THEN cur ELSE Trim(r.stdout)

CdAssign(r, cur) ==
  IF r.rejected \/ r.exitCode # 0 THEN cur ELSE Trim(r.stdout)

CdResponse(r) ==
  IF r.rejected THEN CatchError
  ELSE IF r.exitCode # 0 THEN Response(TRUE, "no_dir", <<>>)
  ELSE Response(FALSE, "ok", Trim(r.stdout))

CdCall(c, newPath) ==
  /\ Enter(c, "cd", [NoArg EXCEPT !.path = newPath],
           [NoLoc EXCEPT !.path = ResolvePath(newPath, cwd), !.cwdSeen = cwd], "cd_probe")
  /\ UNCHANGED <<cwd, verified, clock, remoteVars>>

CdReturn(c) ==
  /\ pc[c] = "cd_probe"
  /\ \E r \in CdProbeOutcomes(loc[c].path) :
       /\ cwd' = CdAssign(r, cwd)
       /\ verified' = IF r.rejected \/ r.exitCode # 0 THEN verified
                      ELSE r.status = 0 /\ Trim(r.stdout) \in dirs
       /\ Return(c, [loc[c] EXCEPT !.result = r], CdResponse(r))
  /\ UNCHANGED <<clock, remoteVars>>

(***************************************************************************)
(* remote_pwd                                                              *)
(***************************************************************************)
Pwd(c) ==
  /\ pc[c] = "idle"
  /\ pc' = [pc EXCEPT ![c] = "done"]
  /\ op' = [op EXCEPT ![c] = "pwd"]
  /\ arg' = [arg EXCEPT ![c] = NoArg]
  /\ loc' = [loc EXCEPT ![c] = [NoLoc EXCEPT !.cwdSeen = cwd]]
  /\ resp' = [resp EXCEPT ![c] =
                Response(FALSE, "ok", IF Truthy(cwd) THEN cwd ELSE <<"(not set)">>)]
  /\ UNCHANGED <<cwd, verified, clock, remoteVars>>

(***************************************************************************)
(* remote_ls, remote_glob, remote_grep                                     *)
(***************************************************************************)
\* `ls <flags> <dir>` in a login shell
LsOutcomes(dir) ==
  { IF RemoteAbs(dir) \in dirs THEN sshClose(0, <<"x", "\n">>, <<>>)
                               ELSE sshClose(2, <<>>, <<"!">>),
    sshError, sshClose(NoStatus, <<>>, <<>>) }

LsCall(c, dirPath) ==
  /\ Enter(c, "ls", [NoArg EXCEPT !.path = dirPath],
           [NoLoc EXCEPT !.path = DefaultDir(dirPath, cwd), !.cwdSeen = cwd], "ls")
  /\ UNCHANGED <<cwd, verified, clock, remoteVars>>

LsReturn(c) ==
  /\ pc[c] = "ls"
  /\ \E r \in LsOutcomes(loc[c].path) :
       Return(c, [loc[c] EXCEPT !.result = r],
              IF r.rejected THEN CatchError
              ELSE IF r.exitCode # 0
                   THEN Response(TRUE, "ls_error", IF r.stderr # <<>> THEN r.stderr ELSE r.stdout)
                   ELSE Response(FALSE, "ok", r.stdout))
  /\ UNCHANGED <<cwd, verified, clock, remoteVars>>

\* `cd <dir> && find . -type f -name <pattern> 2>/dev/null | head -100 | sort`
GlobOutcomes(dir) ==
  { IF RemoteAbs(dir) \in dirs THEN sshClose(0, <<"x", "\n">>, <<>>)
                               ELSE sshClose(1, <<>>, <<"!">>),
    sshError, sshClose(NoStatus, <<>>, <<>>) }

GlobCall(c, searchPath) ==
  /\ Enter(c, "glob", [NoArg EXCEPT !.path = searchPath],
           [NoLoc EXCEPT !.path = DefaultDir(searchPath, cwd), !.cwdSeen = cwd], "glob")
  /\ UNCHANGED <<cwd, verified, clock, remoteVars>>

GlobReturn(c) ==
  /\ pc[c] = "glob"
  /\ \E r \in GlobOutcomes(loc[c].path) :
       Return(c, [loc[c] EXCEPT !.result = r],
              IF r.rejected THEN CatchError
              ELSE IF r.exitCode # 0 /\ r.stderr # <<>>
                   THEN Response(TRUE, "glob_error", r.stderr)
                   ELSE Response(FALSE, "ok", Trim(r.stdout)))
  /\ UNCHANGED <<cwd, verified, clock, remoteVars>>

\* `grep -rn <pattern> <dir> 2>/dev/null | head -50`: the pipeline's status is head's
GrepOutcomes(dir) ==
  { IF RemoteAbs(dir) \in dirs THEN sshClose(0, <<"x", "\n">>, <<>>)
                               ELSE sshClose(0, <<>>, <<>>),
    sshError, sshClose(NoStatus, <<>>, <<>>) }

GrepCall(c, searchPath) ==
  /\ Enter(c, "grep", [NoArg EXCEPT !.path = searchPath],
           [NoLoc EXCEPT !.path = DefaultDir(searchPath, cwd), !.cwdSeen = cwd], "grep")
  /\ UNCHANGED <<cwd, verified, clock, remoteVars>>

GrepReturn(c) ==
  /\ pc[c] = "grep"
  /\ \E r \in GrepOutcomes(loc[c].path) :
       Return(c, [loc[c] EXCEPT !.result = r],
              IF r.rejected THEN CatchError ELSE Response(FALSE, "ok", Trim(r.stdout)))
  /\ UNCHANGED <<cwd, verified, clock, remoteVars>>


(***************************************************************************)
(* Text: lines, here-documents, String.prototype.split and replace         *)
(***************************************************************************)
\* the lines of a text, split at every "\n" (a text ending in "\n" has a last empty piece)
RECURSIVE SplitLines(_)
SplitLines(s) ==
  IF \A i \in 1..Len(s) : s[i] # "\n" THEN <<s>>
  ELSE LET k == CHOOSE i \in 1..Len(s) : s[i] = "\n" /\ \A j \in 1..(i - 1) : s[j] # "\n"
       IN <<SubSeq(s, 1, k - 1)>> \o SplitLines(SubSeq(s, k + 1, Len(s)))

\* the lines a line-oriented tool (cat -n, sed, tail) sees: no empty piece after a final "\n"
TextLines(s) ==
  IF s = <<>> THEN <<>>
  ELSE LET ls == SplitLines(s)
       IN IF s[Len(s)] = "\n" THEN SubSeq(ls, 1, Len(ls) - 1) ELSE ls

\* stands for the delimiter word REMOTERELAY_EOF, one symbol of the alphabet
DelimWord == <<"E">>

\* the lines of `ls`, each ended by "\n", up to the first that is the delimiter word
RECURSIVE HereDocLines(_)
HereDocLines(ls) ==
  IF ls = <<>> \/ Head(ls) = DelimWord THEN <<>>
  ELSE Head(ls) \o <<"\n">> \o HereDocLines(Tail(ls))

\* what `cat > f << 'REMOTERELAY_EOF'\n${content}\nREMOTERELAY_EOF` leaves in f
HereDocBody(content) ==
  HereDocLines(SplitLines(content \o <<"\n">> \o DelimWord))

\* the lines of `ls` after the first that is the delimiter word
RECURSIVE AfterDelim(_)
AfterDelim(ls) ==
  IF ls = <<>> THEN <<>>
  ELSE IF Head(ls) = DelimWord THEN Tail(ls) ELSE AfterDelim(Tail(ls))

\* the lines of `content` the shell is left with once the here-document has ended at a
\* line of the content: it reads them as commands, and then the closing delimiter too
HereDocRest(content) == AfterDelim(SplitLines(content))

\* a line of the content is the delimiter word
HereDocEndsEarly(content) ==
  \E i \in 1..Len(SplitLines(content)) : SplitLines(content)[i] = DelimWord

\* whether `sub` is at position i of s
MatchAt(s, sub, i) ==
  i >= 1 /\ i + Len(sub) - 1 <= Len(s) /\ SubSeq(s, i, i + Len(sub) - 1) = sub

\* the pieces String.prototype.split yields for a non-empty separator, less one
RECURSIVE SplitCountFrom(_, _, _)
SplitCountFrom(s, sep, i) ==
  IF i + Len(sep) - 1 > Len(s) THEN 0
  ELSE IF MatchAt(s, sep, i) THEN 1 + SplitCountFrom(s, sep, i + Len(sep))
  ELSE SplitCountFrom(s, sep, i + 1)

\* originalContent.split(old_string).length - 1
Occurrences(s, sep) ==
  IF sep = <<>> THEN Len(s) - 1 ELSE SplitCountFrom(s, sep, 1)

\* the replacement text with its $$, $&, $` and $' patterns expanded
RECURSIVE JsExpand(_, _, _, _)
JsExpand(r, matched, before, after) ==
  IF r = <<>> THEN <<>>
  ELSE IF Head(r) = "$" /\ Len(r) >= 2 /\ r[2] \in {"$", "&", "`", "'"}
       THEN (CASE r[2] = "$" -> <<"$">>
               [] r[2] = "&" -> matched
               [] r[2] = "`" -> before
               [] r[2] = "'" -> after)
            \o JsExpand(SubSeq(r, 3, Len(r)), matched, before, after)
       ELSE <<Head(r)>> \o JsExpand(Tail(r), matched, before, after)

\* originalContent.replace(old_string, new_string): the first occurrence only
JsReplace(s, old, new) ==
  IF ~\E i \in 1..(Len(s) + 1) : MatchAt(s, old, i) THEN s
  ELSE LET k == CHOOSE i \in 1..(Len(s) + 1) :
                   MatchAt(s, old, i) /\ \A j \in 1..(i - 1) : ~MatchAt(s, old, j)
           before == SubSeq(s, 1, k - 1)
           after == SubSeq(s, k + Len(old), Len(s))
       IN before \o JsExpand(new, old, before, after) \o after

\* `cat -n`: each line gets its number, right-aligned in six columns, and a tab
NumberLine(n, line) == <<" ", " ", " ", " ", " ", ToString(n), "\t">> \o line \o <<"\n">>

RECURSIVE NumberLines(_, _)
NumberLines(ls, n) ==
  IF ls = <<>> THEN <<>> ELSE NumberLine(n, Head(ls)) \o NumberLines(Tail(ls), n + 1)

\* stdout of the command remote_read builds, run on a file holding `content`:
\* cat -n of lines from..to; a last line with no "\n" in the file has none in the output
ReadOutput(content, offset, limit) ==
  LET ls == TextLines(content)
      start == IF offset # 0 THEN offset ELSE 1
      to == IF limit # 0 /\ start + limit - 1 < Len(ls) THEN start + limit - 1 ELSE Len(ls)
      numbered == NumberLines(IF start > to THEN <<>> ELSE SubSeq(ls, start, to), 1)
      cut == numbered # <<>> /\ to = Len(ls) /\ content[Len(content)] # "\n"
  IN IF cut THEN SubSeq(numbered, 1, Len(numbered) - 1) ELSE numbered

\* the directory a path lies in
ParentDir(p) ==
  LET k == CHOOSE i \in 1..Len(p) : p[i] = "/" /\ \A j \in (i + 1)..Len(p) : p[j] # "/"
  IN SubSeq(p, 1, k - 1)

\* the remote host's files after `path` is given `content`
PutFile(fs, path, content) ==
  [q \in DOMAIN fs \cup {path} |-> IF q = path THEN content ELSE fs[q]]


(***************************************************************************)
(* remote_read                                                             *)
(***************************************************************************)
\* whole file: `cat -n f`; with offset or limit: `sed ... f | cat -n` or `tail ... f | cat -n`,
\* a pipeline whose status is that of cat -n
ReadOutcomes(path, offset, limit) ==
  LET f == RemoteAbs(path)
      normal == IF f \in DOMAIN files THEN sshClose(0, ReadOutput(files[f], offset, limit), <<>>)
                ELSE IF offset # 0 \/ limit # 0 THEN sshClose(0, <<>>, <<"!">>)
                ELSE sshClose(1, <<>>, <<"!">>)
  IN {normal, sshError} \cup sshKilled({<<>>, normal.stdout})

ReadCall(c, filePath, offset, limit) ==
  /\ Enter(c, "read", [NoArg EXCEPT !.path = filePath, !.offset = offset, !.limit = limit],
           [NoLoc EXCEPT !.path = ResolvePath(filePath, cwd), !.cwdSeen = cwd], "read")
  /\ UNCHANGED <<cwd, verified, clock, remoteVars>>

ReadReturn(c) ==
  /\ pc[c] = "read"
  /\ \E r \in ReadOutcomes(loc[c].path, arg[c].offset, arg[c].limit) :
       Return(c, [loc[c] EXCEPT !.result = r],
              IF r.rejected THEN CatchError
              ELSE IF r.exitCode # 0
                   THEN Response(TRUE, "read_error", IF r.stderr # <<>> THEN r.stderr ELSE r.stdout)
                   ELSE Response(FALSE, "ok", IF r.stdout # <<>> THEN r.stdout ELSE <<"(empty file)">>))
  /\ UNCHANGED <<cwd, verified, clock, remoteVars>>

(***************************************************************************)
(* remote_write                                                            *)
(***************************************************************************)
\* the shell can open `f` for writing: its directory exists and it is no directory itself
CanCreate(f) == f \notin dirs /\ (ParentDir(f) = <<>> \/ ParentDir(f) \in dirs)

\* the here-document command: the result, the files it leaves and the lines of the
\* content the shell ran as commands (loc.early and loc.ran keep them as history).  cat writes the file, or the redirection fails and
\* the files are left alone; when the here-document ended at a line of the content the
\* shell goes on to run the lines after it and last the closing delimiter, a command it
\* does not find (status 127).  Or the ssh process dies before the command ran
WriteOutcomes(path, content) ==
  LET early == HereDocEndsEarly(content)
      can == CanCreate(RemoteAbs(path))
      status == IF early THEN 127 ELSE IF can THEN 0 ELSE 1
  IN { [r |-> sshClose(status, <<>>, IF status = 0 THEN <<>> ELSE <<"!">>),
        fs |-> IF can THEN PutFile(files, RemoteAbs(path), HereDocBody(content)) ELSE files,
        early |-> early, ran |-> IF early THEN HereDocRest(content) ELSE <<>>],
       [r |-> sshClose(NoStatus, <<>>, <<>>), fs |-> files, early |-> FALSE, ran |-> <<>>],
       [r |-> sshError, fs |-> files, early |-> FALSE, ran |-> <<>>] }

WriteResponse(r, fullPath) ==
  IF r.rejected THEN CatchError
  ELSE IF r.exitCode # 0 THEN Response(TRUE, "write_error", r.stderr)
  ELSE Response(FALSE, "ok", fullPath)

WriteCall(c, filePath, content) ==
  /\ Len(HereDocBody(content)) <= MaxFileLen
  /\ Enter(c, "write", [NoArg EXCEPT !.path = filePath, !.content = content],
           [NoLoc EXCEPT !.path = ResolvePath(filePath, cwd), !.cwdSeen = cwd], "write")
  /\ UNCHANGED <<cwd, verified, clock, remoteVars>>

WriteReturn(c) ==
  /\ pc[c] = "write"
  /\ \E o \in WriteOutcomes(loc[c].path, arg[c].content) :
       /\ files' = o.fs
       /\ Return(c, [loc[c] EXCEPT !.result = o.r, !.wrote = TRUE,
                                 !.early = o.early, !.ran = o.ran],
                 WriteResponse(o.r, loc[c].path))
  /\ UNCHANGED <<cwd, verified, clock, dirs, tmp, session, shellDir>>

(***************************************************************************)
(* remote_edit                                                             *)
(***************************************************************************)
\* `cat f`
EditReadOutcomes(path) ==
  LET f == RemoteAbs(path)
      normal == IF f \in DOMAIN files THEN sshClose(0, files[f], <<>>)
                ELSE sshClose(1, <<>>, <<"!">>)
  IN {normal, sshError} \cup sshKilled(Prefixes(normal.stdout))

EditCall(c, filePath, old, new) ==
  /\ Enter(c, "edit", [NoArg EXCEPT !.path = filePath, !.old = old, !.new = new],
           [NoLoc EXCEPT !.path = ResolvePath(filePath, cwd), !.cwdSeen = cwd], "edit_read")
  /\ UNCHANGED <<cwd, verified, clock, remoteVars>>

\* the file is fetched; the occurrences are counted; the rewrite is issued or refused.
\* loc.disk and loc.fetchStatus are history: what the file held when it was fetched, and
\* the exit status of the command that fetched it
EditRead(c) ==
  /\ pc[c] = "edit_read"
  /\ \E r \in EditReadOutcomes(loc[c].path) :
       LET f == RemoteAbs(loc[c].path)
           l == [loc[c] EXCEPT !.result = r, !.content = r.stdout, !.fetchStatus = r.status,
                               !.disk = IF f \in DOMAIN files THEN files[f] ELSE Null]
           occurrences == Occurrences(r.stdout, arg[c].old)
           newContent == JsReplace(r.stdout, arg[c].old, arg[c].new)
       IN IF r.rejected THEN Return(c, l, CatchError)
          ELSE IF r.exitCode # 0 THEN Return(c, l, Response(TRUE, "read_error", r.stderr))
          ELSE IF occurrences = 0 THEN Return(c, l, Response(TRUE, "not_found", <<>>))
          ELSE IF occurrences > 1 THEN Return(c, l, Response(TRUE, "ambiguous", <<>>))
          ELSE /\ Len(HereDocBody(newContent)) <= MaxFileLen
               /\ Resume(c, [l EXCEPT !.newContent = newContent], "edit_write")
  /\ UNCHANGED <<cwd, verified, clock, remoteVars>>

EditWrite(c) ==
  /\ pc[c] = "edit_write"
  /\ \E o \in WriteOutcomes(loc[c].path, loc[c].newContent) :
       /\ files' = o.fs
       /\ Return(c, [loc[c] EXCEPT !.result = o.r, !.wrote = TRUE,
                                 !.early = o.early, !.ran = o.ran],
                 WriteResponse(o.r, loc[c].path))
  /\ UNCHANGED <<cwd, verified, clock, dirs, tmp, session, shellDir>>


(***************************************************************************)
(* Numbers as text                                                         *)
(***************************************************************************)
Digit(n) == ToString(n)

\* what `echo $?` prints for status n, less the newline
RECURSIVE Digits(_)
Digits(n) == IF n < 10 THEN <<Digit(n)>> ELSE Digits(n \div 10) \o <<Digit(n % 10)>>

DigitValue(ch) == CHOOSE d \in 0..9 : Digit(d) = ch

\* parseInt(s, 10) of a string of digits
RECURSIVE ParseInt(_)
ParseInt(s) ==
  IF s = <<>> THEN 0
  ELSE 10 * ParseInt(SubSeq(s, 1, Len(s) - 1)) + DigitValue(s[Len(s)])

(***************************************************************************)
(* The tmux session on the remote host                                     *)
(***************************************************************************)
OutputFile(tok) == <<"out", tok>>
ExitCodeFile(tok) == <<"exit", tok>>

HasTmp(name) == name \in DOMAIN tmp

RemoveTmp(t, names) == [n \in (DOMAIN t) \ names |-> t[n]]

PutTmp(t, name, content) ==
  [n \in DOMAIN t \cup {name} |-> IF n = name THEN content ELSE t[n]]

\* the directory `cd target` reaches from directory `from`
CdTarget(from, target) ==
  IF StartsWithSlash(target) THEN target ELSE from \o <<"/">> \o target

\* what the effective command `cd <prefix> && <command>` does, run by the session's shell
\* in directory `from`: its exit status, its combined output, the shell's directory after it
RunCommand(job, from) ==
  LET afterPrefix == IF job.prefix = Null THEN from ELSE job.prefix
      target == CdTarget(afterPrefix, job.cmd.cd)
  IN IF job.prefix # Null /\ job.prefix \notin dirs
     THEN [exit |-> 1, out |-> <<"!">>, dir |-> from]
     ELSE IF job.cmd.cd = Null
          THEN [exit |-> job.cmd.exit, out |-> job.cmd.out, dir |-> afterPrefix]
     ELSE IF target \in dirs
          THEN [exit |-> 0, out |-> <<>>, dir |-> target]
          ELSE [exit |-> 1, out |-> <<"!">>, dir |-> afterPrefix]

SetHead(stage, run) ==
  [session EXCEPT !.queue = <<[Head(session.queue) EXCEPT !.stage = stage, !.run = run]>>
                            \o Tail(session.queue)]

NoRun == [exit |-> 0, out |-> <<>>, dir |-> Home]

\* the shell reads the next typed line: `{ ... ; } > outputFile 2>&1` opens the output file
JobStart ==
  /\ session.queue # <<>>
  /\ Head(session.queue).stage = "typed"
  /\ tmp' = PutTmp(tmp, OutputFile(Head(session.queue).outTok), <<>>)
  /\ session' = SetHead("running", NoRun)
  /\ UNCHANGED <<cwd, verified, callVars, clock, dirs, files, shellDir>>

\* the effective command ends: its output is in the output file, if that is still linked.
\* loc.fin, loc.finCode and loc.finOut are history: when and how the call's command ended
JobFinish ==
  /\ session.queue # <<>>
  /\ Head(session.queue).stage = "running"
  /\ LET job == Head(session.queue)
         run == RunCommand(job, shellDir)
     IN /\ tmp' = IF HasTmp(OutputFile(job.outTok))
                  THEN PutTmp(tmp, OutputFile(job.outTok), run.out) ELSE tmp
        /\ shellDir' = run.dir
        /\ session' = SetHead("ran", run)
        /\ loc' = [loc EXCEPT ![job.owner].fin = clock,
                              ![job.owner].finCode = run.exit,
                              ![job.owner].finOut = run.out]
  /\ UNCHANGED <<cwd, verified, pc, op, arg, resp, clock, dirs, files>>

\* `echo $? > exitCodeFile`.  loc.echoed is history: when the status was written
JobEcho ==
  /\ session.queue # <<>>
  /\ Head(session.queue).stage = "ran"
  /\ LET job == Head(session.queue)
     IN /\ tmp' = PutTmp(tmp, ExitCodeFile(job.exitTok), Digits(job.run.exit) \o <<"\n">>)
        /\ loc' = [loc EXCEPT ![job.owner].echoed = clock]
  /\ session' = [session EXCEPT !.queue = Tail(session.queue)]
  /\ UNCHANGED <<cwd, verified, pc, op, arg, resp, clock, dirs, files, shellDir>>

\* a timer of the poll loop is set and has not fired
TimerPending == \E c \in Calls : pc[c] = "sleep" /\ clock < loc[c].wake

\* time passes, up to MaxClock
Tick ==
  /\ clock + TickMs <= MaxClock
  /\ clock' = clock + TickMs
  /\ UNCHANGED <<cwd, verified, callVars, remoteVars>>

\* time passes beyond MaxClock for as long as a timer is pending
TimerTick ==
  /\ clock + TickMs > MaxClock
  /\ TimerPending
  /\ clock' = clock + TickMs
  /\ UNCHANGED <<cwd, verified, callVars, remoteVars>>


(***************************************************************************)
(* tmuxExec, as remote_bash calls it                                       *)
(***************************************************************************)
\* options.timeout || 60000
EffectiveTimeout(timeout) == IF timeout # 0 THEN timeout ELSE DefaultTimeout

\* the token of a temporary file's name
FileToken(now) == now

\* the loop condition: Date.now() - startTime < timeout
WithinTimeout(now, start, timeout) == now - start < timeout

\* currentWorkingDirectory after remote_bash ran `command`: the handler assigns nothing
WorkingDirectoryFollowsCd(cur, command, ret) ==
  IF command.cd # Null /\ ret.exitCode = 0 THEN command.cd ELSE cur

WorkingDirectoryAfterBash(cur, command, ret) == cur

\* the response remote_bash builds from tmuxExec's result
BashResponse(ret, cur) ==
  [isError |-> FALSE, kind |-> "result",
   text |-> IF ret.stdout # <<>> THEN ret.stdout ELSE <<"(no output)">>,
   exitCode |-> ret.exitCode, cwdShown |-> IF Truthy(cur) THEN cur ELSE <<"(not set)">>]

\* tmuxExec runs to its first await: the timeout, the two file names, the ensure-session call.
\* The two Date.now() readings fall in the same millisecond.  Calls are taken up to MaxClock
BashCall(c, command, timeout) ==
  /\ clock <= MaxClock
  /\ Enter(c, "bash", [NoArg EXCEPT !.command = command, !.timeout = timeout],
           [NoLoc EXCEPT !.timeout = EffectiveTimeout(timeout),
                         !.outTok = FileToken(clock),
                         !.exitTok = FileToken(clock),
                         !.cwdSeen = cwd],
           "ensure")
  /\ UNCHANGED <<cwd, verified, clock, remoteVars>>

\* `tmux has-session -t S 2>/dev/null || tmux new-session -d -s S`: its result is not
\* looked at; then the effective command is built from currentWorkingDirectory and sent
\* an ensure-session step that starts a session without looking for one
EnsureAlwaysNew ==
  { [r |-> sshClose(0, <<>>, <<>>), exists |-> TRUE, made |-> 1],
    [r |-> sshClose(1, <<>>, <<"!">>), exists |-> session.exists, made |-> 0],
    [r |-> sshError, exists |-> session.exists, made |-> 0] }

\* has-session finds the session, or new-session makes one (`made`); or the command fails
EnsureOutcomes ==
  { [r |-> sshClose(0, <<>>, <<>>), exists |-> TRUE, made |-> IF session.exists THEN 0 ELSE 1],
    [r |-> sshClose(1, <<>>, <<"!">>), exists |-> session.exists, made |-> 0],
    [r |-> sshError, exists |-> session.exists, made |-> 0] }

BashEnsure(c) ==
  /\ pc[c] = "ensure"
  /\ \E o \in EnsureOutcomes :
       /\ session' = [session EXCEPT !.exists = o.exists, !.count = @ + o.made]
       /\ IF o.r.rejected
          THEN Return(c, [loc[c] EXCEPT !.result = sshError], CatchError)
          ELSE Resume(c, [loc[c] EXCEPT !.prefix = IF Truthy(cwd) THEN cwd ELSE Null], "send")
  /\ UNCHANGED <<cwd, verified, clock, dirs, files, tmp, shellDir>>

\* `tmux send-keys -t S '<wrapped command>' Enter`: the line is typed into the session if
\* there is one; then startTime is read and the first poll is issued.  loc.typed is
\* history: how many times the call's wrapped command was typed into the session
SendOutcomes(c) ==
  { IF session.exists
    THEN [r |-> sshClose(0, <<>>, <<>>),
          queue |-> Append(session.queue,
                           [owner |-> c, cmd |-> arg[c].command, prefix |-> loc[c].prefix,
                            outTok |-> loc[c].outTok, exitTok |-> loc[c].exitTok,
                            stage |-> "typed", run |-> NoRun])]
    ELSE [r |-> sshClose(1, <<>>, <<"!">>), queue |-> session.queue],
    [r |-> sshError, queue |-> session.queue] }

BashSend(c) ==
  /\ pc[c] = "send"
  /\ \E o \in SendOutcomes(c) :
       /\ session' = [session EXCEPT !.queue = o.queue]
       /\ IF o.r.rejected
          THEN Return(c, [loc[c] EXCEPT !.result = sshError], CatchError)
          ELSE Resume(c, [loc[c] EXCEPT !.start = clock,
                                        !.delivered = (o.r.exitCode = 0),
                                        !.typed = @ + Len(o.queue) - Len(session.queue)],
                      IF WithinTimeout(clock, clock, loc[c].timeout) THEN "poll" ELSE "rm_timeout")
  /\ UNCHANGED <<cwd, verified, clock, dirs, files, tmp, shellDir>>

\* `test -f exitCodeFile && cat exitCodeFile`
PollOutcomes(c) ==
  { IF HasTmp(ExitCodeFile(loc[c].exitTok))
    THEN sshClose(0, tmp[ExitCodeFile(loc[c].exitTok)], <<>>)
    ELSE sshClose(1, <<>>, <<>>),
    sshError }

BashPoll(c) ==
  /\ pc[c] = "poll"
  /\ \E r \in PollOutcomes(c) :
       IF r.rejected THEN Return(c, [loc[c] EXCEPT !.result = sshError], CatchError)
       ELSE IF Trim(r.stdout) # <<>>
            THEN Resume(c, [loc[c] EXCEPT !.check = r.stdout], "cat")
            ELSE Resume(c, [loc[c] EXCEPT !.check = r.stdout,
                                          !.wake = clock + PollInterval], "sleep")
  /\ UNCHANGED <<cwd, verified, clock, remoteVars>>

\* a poll loop that sends the wrapped command again when a poll found nothing
BashWakeResend(c) ==
  /\ pc[c] = "sleep"
  /\ clock >= loc[c].wake
  /\ Resume(c, loc[c],
            IF WithinTimeout(clock, loc[c].start, loc[c].timeout) THEN "send" ELSE "rm_timeout")
  /\ UNCHANGED <<cwd, verified, clock, remoteVars>>

\* the 500 ms timer fires; the loop condition is evaluated; the next poll or the cleanup
\* of the timeout path is issued
BashWake(c) ==
  /\ pc[c] = "sleep"
  /\ clock >= loc[c].wake
  /\ Resume(c, loc[c],
            IF WithinTimeout(clock, loc[c].start, loc[c].timeout) THEN "poll" ELSE "rm_timeout")
  /\ UNCHANGED <<cwd, verified, clock, remoteVars>>

\* `cat outputFile 2>/dev/null`
CatOutcomes(c) ==
  { IF HasTmp(OutputFile(loc[c].outTok))
    THEN sshClose(0, tmp[OutputFile(loc[c].outTok)], <<>>)
    ELSE sshClose(1, <<>>, <<>>),
    sshError }

BashCat(c) ==
  /\ pc[c] = "cat"
  /\ \E r \in CatOutcomes(c) :
       IF r.rejected THEN Return(c, [loc[c] EXCEPT !.result = sshError], CatchError)
       ELSE Resume(c, [loc[c] EXCEPT
                         !.ret = [stdout |-> r.stdout, stderr |-> <<>>,
                                  exitCode |-> ParseInt(Trim(loc[c].check))]], "rm")
  /\ UNCHANGED <<cwd, verified, clock, remoteVars>>

\* `rm -f outputFile exitCodeFile`: the result and the temporary files it leaves
RmOutcomes(c) ==
  { [r |-> sshClose(0, <<>>, <<>>),
     tmp |-> RemoveTmp(tmp, {OutputFile(loc[c].outTok), ExitCodeFile(loc[c].exitTok)})],
    [r |-> sshError, tmp |-> tmp] }

\* the cleanup of the completed path; tmuxExec returns; remote_bash builds its response
BashRm(c) ==
  /\ pc[c] = "rm"
  /\ \E o \in RmOutcomes(c) :
       /\ tmp' = o.tmp
       /\ cwd' = IF o.r.rejected THEN cwd
                 ELSE WorkingDirectoryAfterBash(cwd, arg[c].command, loc[c].ret)
       /\ IF o.r.rejected THEN Return(c, [loc[c] EXCEPT !.result = sshError], CatchError)
          ELSE Return(c, loc[c], BashResponse(loc[c].ret, cwd'))
  /\ UNCHANGED <<verified, clock, dirs, files, session, shellDir>>

TimedOut == [stdout |-> <<>>, stderr |-> <<"Command timed out">>, exitCode |-> TimeoutExitCode]

\* the cleanup of the timeout path; tmuxExec returns the timeout outcome
BashRmTimeout(c) ==
  /\ pc[c] = "rm_timeout"
  /\ \E o \in RmOutcomes(c) :
       /\ tmp' = o.tmp
       /\ IF o.r.rejected THEN Return(c, [loc[c] EXCEPT !.result = sshError], CatchError)
          ELSE Return(c, [loc[c] EXCEPT !.ret = TimedOut],
                      BashResponse(TimedOut, cwd))
  /\ UNCHANGED <<cwd, verified, clock, dirs, files, session, shellDir>>

(***************************************************************************)
(* Initial states                                                          *)
(***************************************************************************)
InitDirs == { <<"/", "a">>, <<"/", "a", "/", "b">>, Home }

TheFile == Home \o <<"/", "f">>

InitCalls ==
  /\ pc = [c \in Calls |-> "idle"]
  /\ op = [c \in Calls |-> "none"]
  /\ arg = [c \in Calls |-> NoArg]
  /\ loc = [c \in Calls |-> NoLoc]
  /\ resp = [c \in Calls |-> NoResp]

\* the process has just started; the session may be left from an earlier run
Init ==
  /\ cwd = Null
  /\ verified = FALSE
  /\ InitCalls
  /\ clock = 0
  /\ dirs = InitDirs
  /\ files = [f \in {TheFile} |-> <<"a", "\n">>]
  /\ tmp = <<>>
  /\ session \in { [exists |-> e, count |-> IF e THEN 1 ELSE 0, queue |-> <<>>] : e \in BOOLEAN }
  /\ shellDir = Home

(***************************************************************************)
(* The Bridge: remote_bash calls in flight together, and time              *)
(***************************************************************************)
Commands ==
  { [exit |-> 0, out |-> <<"o">>, cd |-> Null],
    [exit |-> 3, out |-> <<>>, cd |-> Null] }

Timeouts == {0, MaxTimeout}

BridgeCalls == {1}

NextBridge ==
  \/ \E c \in BridgeCalls, command \in Commands, timeout \in Timeouts : BashCall(c, command, timeout)
  \/ \E c \in BridgeCalls : BashEnsure(c)
  \/ \E c \in BridgeCalls : BashSend(c)
  \/ \E c \in BridgeCalls : BashPoll(c)
  \/ \E c \in BridgeCalls : BashWake(c)
  \/ \E c \in BridgeCalls : BashCat(c)
  \/ \E c \in BridgeCalls : BashRm(c)
  \/ \E c \in BridgeCalls : BashRmTimeout(c)
  \/ \E c \in BridgeCalls : Respond(c)
  \/ JobStart
  \/ JobFinish
  \/ JobEcho
  \/ Tick

SpecBridge == Init /\ [][NextBridge]_vars


(***************************************************************************)
(* Two remote_bash calls in flight together, each slot with its own command *)
(***************************************************************************)
CommandOf(c) == [exit |-> c, out |-> <<Digit(c)>>, cd |-> Null]

NextShared ==
  \/ \E c \in Calls : BashCall(c, CommandOf(c), MaxTimeout)
  \/ \E c \in Calls : BashEnsure(c)
  \/ \E c \in Calls : BashSend(c)
  \/ \E c \in Calls : BashPoll(c)
  \/ \E c \in Calls : BashWake(c)
  \/ \E c \in Calls : BashCat(c)
  \/ \E c \in Calls : BashRm(c)
  \/ \E c \in Calls : BashRmTimeout(c)
  \/ JobStart
  \/ JobFinish
  \/ JobEcho
  \/ Tick

SpecShared == Init /\ [][NextShared]_vars


(***************************************************************************)
(* Every tool, one call after another                                      *)
(***************************************************************************)
\* the slot that takes the calls
ToolCalls == {1}

CdCommand == [exit |-> 0, out |-> <<>>, cd |-> <<"/", "a">>]

NextTools ==
  \/ \E c \in ToolCalls, p \in {<<"/", "a">>, <<"/", "x">>} : CdCall(c, p)
  \/ \E c \in ToolCalls : CdReturn(c)
  \/ \E c \in ToolCalls : Pwd(c)
  \/ \E c \in ToolCalls : LsCall(c, Null)
  \/ \E c \in ToolCalls : LsReturn(c)
  \/ \E c \in ToolCalls : GlobCall(c, Null)
  \/ \E c \in ToolCalls : GlobReturn(c)
  \/ \E c \in ToolCalls : GrepCall(c, Null)
  \/ \E c \in ToolCalls : GrepReturn(c)
  \/ \E c \in ToolCalls : ReadCall(c, TheFile, 0, 0)
  \/ \E c \in ToolCalls : ReadReturn(c)
  \/ \E c \in ToolCalls : WriteCall(c, TheFile, <<"b">>)
  \/ \E c \in ToolCalls : WriteReturn(c)
  \/ \E c \in ToolCalls : EditCall(c, TheFile, <<"a">>, <<"b">>)
  \/ \E c \in ToolCalls : EditRead(c)
  \/ \E c \in ToolCalls : EditWrite(c)
  \/ \E c \in ToolCalls : BashCall(c, CdCommand, MaxTimeout)
  \/ \E c \in ToolCalls : BashEnsure(c)
  \/ \E c \in ToolCalls : BashSend(c)
  \/ \E c \in ToolCalls : BashPoll(c)
  \/ \E c \in ToolCalls : BashWake(c)
  \/ \E c \in ToolCalls : BashCat(c)
  \/ \E c \in ToolCalls : BashRm(c)
  \/ \E c \in ToolCalls : BashRmTimeout(c)
  \/ \E c \in ToolCalls : Respond(c)
  \/ JobStart
  \/ JobFinish
  \/ JobEcho
  \/ Tick

Spec == Init /\ [][NextTools]_vars

(***************************************************************************)
(* The one-shot tools and the paths they use, one call after another       *)
(***************************************************************************)
PathArgs == { <<"/", "a">>, <<"b">>, <<"/", "x">>, <<"f">> }

\* an optional path may be left out, or be the empty string
OptPathArgs == PathArgs \cup {Null, <<>>}

NextPaths ==
  \/ \E c \in ToolCalls, p \in PathArgs : CdCall(c, p)
  \/ \E c \in ToolCalls : CdReturn(c)
  \/ \E c \in ToolCalls : Pwd(c)
  \/ \E c \in ToolCalls, p \in OptPathArgs : LsCall(c, p)
  \/ \E c \in ToolCalls : LsReturn(c)
  \/ \E c \in ToolCalls, p \in OptPathArgs : GlobCall(c, p)
  \/ \E c \in ToolCalls : GlobReturn(c)
  \/ \E c \in ToolCalls, p \in OptPathArgs : GrepCall(c, p)
  \/ \E c \in ToolCalls : GrepReturn(c)
  \/ \E c \in ToolCalls, p \in PathArgs : ReadCall(c, p, 0, 0)
  \/ \E c \in ToolCalls : ReadReturn(c)
  \/ \E c \in ToolCalls, p \in PathArgs : WriteCall(c, p, <<"b">>)
  \/ \E c \in ToolCalls : WriteReturn(c)
  \/ \E c \in ToolCalls, p \in PathArgs : EditCall(c, p, <<"a">>, <<"b">>)
  \/ \E c \in ToolCalls : EditRead(c)
  \/ \E c \in ToolCalls : EditWrite(c)
  \/ \E c \in ToolCalls : Respond(c)

SpecPaths == Init /\ [][NextPaths]_vars


(***************************************************************************)
(* remote_write and remote_edit on one file, one call after another        *)
(***************************************************************************)
RECURSIVE SeqsUpTo(_, _)
SeqsUpTo(alphabet, n) ==
  IF n = 0 THEN {<<>>}
  ELSE LET shorter == SeqsUpTo(alphabet, n - 1)
       IN shorter \cup { Append(s, ch) : s \in shorter, ch \in alphabet }

\* what the file holds when the process starts
FileContents == SeqsUpTo({"a", "\n"}, MaxFileLen - 1)

OldStrings == { <<"a">>, <<"a", "a">>, <<"a", "\n">>, <<>> }

NewStrings == { <<"b">>, <<>>, <<"$", "&">>, <<"$", "$">> }

WriteContents == { <<>>, <<"a">>, <<"a", "\n">>, <<"a", "\n", "E">>, <<"E">> }

InitEdit ==
  /\ cwd = Null
  /\ verified = FALSE
  /\ InitCalls
  /\ clock = 0
  /\ dirs = InitDirs
  /\ files \in [{TheFile} -> FileContents]
  /\ tmp = <<>>
  /\ session = [exists |-> FALSE, count |-> 0, queue |-> <<>>]
  /\ shellDir = Home

NextEdit ==
  \/ \E c \in ToolCalls, content \in WriteContents : WriteCall(c, <<"f">>, content)
  \/ \E c \in ToolCalls : WriteReturn(c)
  \/ \E c \in ToolCalls, old \in OldStrings, new \in NewStrings : EditCall(c, <<"f">>, old, new)
  \/ \E c \in ToolCalls : EditRead(c)
  \/ \E c \in ToolCalls : EditWrite(c)
  \/ \E c \in ToolCalls : Respond(c)

SpecEdit == InitEdit /\ [][NextEdit]_vars

(***************************************************************************)
(* Properties                                                              *)
(***************************************************************************)
IsBash(c) == op[c] = "bash"

\* the call ended with what tmuxExec returned, not in the handler's catch block
Returned(c) == IsBash(c) /\ pc[c] = "done" /\ ~resp[c].isError

\* the instant the poll loop of call c stops issuing polls
Deadline(c) == loc[c].start + loc[c].timeout

\* no other call in flight has the same temporary files
OwnFiles(c) ==
  \A d \in Calls \ {c} :
    IsBash(d) /\ pc[d] # "idle" => loc[d].outTok # loc[c].outTok /\ loc[d].exitTok # loc[c].exitTok

\* the session holds no command of call c any more
Quiescent(c) == \A i \in 1..Len(session.queue) : session.queue[i].owner # c

\* C1: a Bridge call whose command ended with status N strictly before the timeout
\* elapsed returns exitCode N and exactly the command's output, never the timeout outcome.
\* Stated for the commands whose status was in the exit-status file before the deadline.
C1_FinishedBeforeTimeoutReturnsResult ==
  \A c \in Calls :
    (Returned(c) /\ loc[c].echoed # -1 /\ loc[c].echoed < Deadline(c))
      => /\ loc[c].ret.exitCode = loc[c].finCode
         /\ loc[c].ret.stdout = loc[c].finOut
         /\ loc[c].ret # TimedOut

\* C2: a Bridge call whose command is still running when the timeout elapses returns
\* exitCode 124, empty stdout and 'Command timed out', whatever the command's own
\* status and however the polls fall around the deadline.
C2_RunningAtTimeoutReturns124 ==
  \A c \in Calls :
    (Returned(c) /\ loc[c].delivered /\ OwnFiles(c)
       /\ (IF loc[c].fin = -1 THEN clock >= Deadline(c) ELSE loc[c].fin >= Deadline(c)))
      => loc[c].ret = TimedOut

\* C3: once a Bridge call has ended, by any path, and the session holds none of its
\* commands any more, neither its output file nor its exit-status file exists.
C3_TempFilesRemovedOnEveryPath ==
  \A c \in Calls :
    (IsBash(c) /\ pc[c] = "done" /\ Quiescent(c))
      => /\ ~HasTmp(OutputFile(loc[c].outTok))
         /\ ~HasTmp(ExitCodeFile(loc[c].exitTok))

\* C4: any two Bridge calls of the process have distinct output-file paths and distinct
\* exit-status-file paths.
C4_DistinctTempFilePaths ==
  \A c \in Calls, d \in Calls :
    (c # d /\ IsBash(c) /\ IsBash(d) /\ pc[c] # "idle" /\ pc[d] # "idle")
      => /\ OutputFile(loc[c].outTok) # OutputFile(loc[d].outTok)
         /\ ExitCodeFile(loc[c].exitTok) # ExitCodeFile(loc[d].exitTok)

\* the probe of a change-directory call failed: the Connector rejected or the exit code is not 0
ProbeFailed(r) == r.rejected \/ r.exitCode # 0

\* C5: when the existence probe of a change-directory call fails (nonzero exit code, or
\* the Connector rejects), the step that ends the call leaves the Working Directory State
\* as it was and returns an error response.
C5_FailedCdLeavesCwd ==
  [][ \A c \in Calls :
        (pc[c] = "cd_probe" /\ pc'[c] = "done" /\ ProbeFailed(loc'[c].result))
          => (cwd' = cwd /\ resp'[c].isError) ]_vars

\* a change-directory call has failed while the Working Directory State was set
C5_FailedCdWithCwdSet ==
  \E c \in Calls :
    /\ op[c] = "cd" /\ pc[c] = "done" /\ ProbeFailed(loc[c].result) /\ resp[c].isError
    /\ cwd = <<"/", "a">>

\* C6: the Working Directory State is always unset or an absolute path that a probe
\* returned after verifying the directory exists, whatever the Connector hands back.
C6_CwdUnsetOrVerifiedAbsolute ==
  cwd = Null \/ (StartsWithSlash(cwd) /\ verified)

\* C7: the Working Directory State starts unset and only the step that ends a
\* change-directory call changes it; every step of every other operation, an
\* execute-command whose command is a cd included, leaves it as it is.
C7_OnlyCdChangesCwd ==
  /\ cwd = Null
  /\ [][ cwd' # cwd => \E c \in Calls : op[c] = "cd" /\ pc[c] = "cd_probe" /\ pc'[c] = "done" ]_vars

\* an execute-command call ran a cd with success in the session, and the Working
\* Directory State is not the directory the session's shell is in
C7_BashCdDone ==
  \E c \in Calls :
    /\ Returned(c) /\ arg[c].command.cd # Null /\ loc[c].ret.exitCode = 0
    /\ shellDir = arg[c].command.cd /\ cwd # arg[c].command.cd

\* the path the specification's resolution rule gives path P under Working Directory State D
Resolution(P, D) ==
  IF StartsWithSlash(P) THEN P
  ELSE IF D # Null THEN D \o <<"/">> \o P ELSE P

PathOps == {"read", "write", "edit", "cd", "glob", "grep", "ls"}

\* C8: every operation that takes a path P uses P itself when P begins with '/',
\* D + '/' + P when the Working Directory State is D, and P when it is unset.  Stated
\* for the paths that are not empty and the states that are unset or absolute.
C8_PathUsedIsResolution ==
  \A c \in Calls :
    (op[c] \in PathOps /\ pc[c] # "idle" /\ arg[c].path # Null /\ arg[c].path # <<>>
       /\ (loc[c].cwdSeen = Null \/ StartsWithSlash(loc[c].cwdSeen)))
      => loc[c].path = Resolution(arg[c].path, loc[c].cwdSeen)

\* the positions of s at which sub occurs
Positions(s, sub) == { i \in 1..(Len(s) + 1) : MatchAt(s, sub, i) }

\* s with the occurrence of old at position k replaced by the text new, nothing else touched
ReplaceAt(s, k, old, new) ==
  SubSeq(s, 1, k - 1) \o new \o SubSeq(s, k + Len(old), Len(s))

\* C9: when the file holds C with exactly one occurrence of S, a successful edit-file
\* leaves the file holding C with that occurrence replaced by R and nothing else changed.
\* Stated for the edits whose rewrite command exited with status 0.
C9_EditReplacesExactly ==
  \A c \in Calls :
    (op[c] = "edit" /\ pc[c] = "done" /\ resp[c].kind = "ok" /\ loc[c].result.status = 0
       /\ loc[c].disk # Null /\ arg[c].old # <<>>
       /\ Cardinality(Positions(loc[c].disk, arg[c].old)) = 1)
      => files[RemoteAbs(loc[c].path)] =
           ReplaceAt(loc[c].disk, CHOOSE k \in Positions(loc[c].disk, arg[c].old) : TRUE,
                     arg[c].old, arg[c].new)

\* the edit-file call c has fetched the file: the read resolved with exit code 0
Fetched(c) ==
  /\ op[c] = "edit"
  /\ pc[c] = "edit_write" \/ (pc[c] = "done" /\ resp[c].kind \in {"not_found", "ambiguous"})
       \/ loc[c].wrote

\* C10: edit-file goes on to rewrite the file exactly when the target occurs at exactly
\* one position of the fetched content, overlapping positions counted; with none it
\* returns 'not found', with two or more 'ambiguous', and then issues no write.  Stated for
\* the targets that are not empty and the fetches that exited with status 0.
C10_EditProceedsIffExactlyOnce ==
  \A c \in Calls :
    (Fetched(c) /\ loc[c].fetchStatus = 0 /\ arg[c].old # <<>>)
      => LET n == Cardinality(Positions(loc[c].content, arg[c].old))
             proceeded == pc[c] = "edit_write" \/ loc[c].wrote
         IN /\ proceeded <=> n = 1
            /\ n = 0 => resp[c].kind = "not_found"
            /\ n >= 2 => resp[c].kind = "ambiguous"

(***************************************************************************)
(* remote_write, then remote_read of the same path                         *)
(***************************************************************************)
RoundTripContents == SeqsUpTo({"a", "\n", "E"}, 2) \cup { <<"E", "\n", "a">> }

\* slot 1 writes; slot 2 reads once the write has returned
NextRoundTrip ==
  \/ \E content \in RoundTripContents : WriteCall(1, <<"f">>, content)
  \/ WriteReturn(1)
  \/ pc[1] = "done" /\ ReadCall(2, <<"f">>, 0, 0)
  \/ ReadReturn(2)
  \/ Respond(2)
  \/ pc[2] = "idle" /\ Respond(1)

SpecRoundTrip == Init /\ [][NextRoundTrip]_vars

\* a line of `cat -n` output less its prefix: the number and the tab
StripPrefix(line) ==
  IF \A i \in 1..Len(line) : line[i] # "\t" THEN line
  ELSE LET k == CHOOSE i \in 1..Len(line) : line[i] = "\t" /\ \A j \in 1..(i - 1) : line[j] # "\t"
       IN SubSeq(line, k + 1, Len(line))

RECURSIVE JoinStripped(_)
JoinStripped(ls) ==
  IF Len(ls) = 1 THEN StripPrefix(ls[1])
  ELSE StripPrefix(Head(ls)) \o <<"\n">> \o JoinStripped(Tail(ls))

\* the text of a read-file response with the line-number prefixes taken off
StripNumbers(text) == JoinStripped(SplitLines(text))

\* C11: a successful write-file of any content followed by a read-file of the same path
\* returns exactly that content once the line-number prefixes are stripped.  Stated for
\* the writes and reads whose commands exited with status 0.
C11_WriteThenReadReturnsContent ==
  ( /\ op[1] = "write" /\ pc[1] = "done" /\ resp[1].kind = "ok" /\ loc[1].result.status = 0
    /\ op[2] = "read" /\ pc[2] = "done" /\ resp[2].kind = "ok" /\ loc[2].result.status = 0 )
    => StripNumbers(resp[2].text) = arg[1].content

(***************************************************************************)
(* Every tool, with every Connector call resolving or rejecting in the end *)
(***************************************************************************)
\* the step that takes up call c's handler where it is suspended
HandlerStep(c) ==
  \/ CdReturn(c) \/ LsReturn(c) \/ GlobReturn(c) \/ GrepReturn(c)
  \/ ReadReturn(c) \/ WriteReturn(c) \/ EditRead(c) \/ EditWrite(c)
  \/ BashEnsure(c) \/ BashSend(c) \/ BashPoll(c) \/ BashWake(c)
  \/ BashCat(c) \/ BashRm(c) \/ BashRmTimeout(c)

\* time passes, and no awaited Connector call or timer stays pending for ever
Fairness == WF_vars(Tick \/ TimerTick) /\ \A c \in ToolCalls : WF_vars(HandlerStep(c))

\* the calls of NextTools, one after another up to and including one execute-command call
NextLive ==
  \/ \E c \in ToolCalls, p \in {<<"/", "a">>, <<"/", "x">>} : CdCall(c, p)
  \/ \E c \in ToolCalls : Pwd(c)
  \/ \E c \in ToolCalls : LsCall(c, Null)
  \/ \E c \in ToolCalls : GlobCall(c, Null)
  \/ \E c \in ToolCalls : GrepCall(c, Null)
  \/ \E c \in ToolCalls : ReadCall(c, TheFile, 0, 0)
  \/ \E c \in ToolCalls : WriteCall(c, TheFile, <<"b">>)
  \/ \E c \in ToolCalls : EditCall(c, TheFile, <<"a">>, <<"b">>)
  \/ \E c \in ToolCalls, command \in Commands \cup {CdCommand} : BashCall(c, command, MaxTimeout)
  \/ \E c \in ToolCalls : HandlerStep(c)
  \/ \E c \in ToolCalls : op[c] # "bash" /\ Respond(c)
  \/ JobStart
  \/ JobFinish
  \/ JobEcho
  \/ Tick
  \/ TimerTick

SpecLive == Init /\ [][NextLive]_vars /\ Fairness

\* C12: every tool call, whatever its Connector calls resolve with and wherever one
\* rejects, ends by returning a response; a rejection ends the call with an
\* error-flagged response and never leaves it without one.
C12_EveryCallReturnsAResponse ==
  /\ [](\A c \in Calls :
          pc[c] = "done" => /\ resp[c].kind # "none"
                            /\ loc[c].result.rejected => resp[c].isError)
  /\ \A c \in Calls : (pc[c] \notin {"idle", "done"}) ~> (pc[c] = "done")

\* an execute-command call ended in its catch block: a Connector call rejected after
\* the command had been sent to the session
C12_RejectionCaught ==
  \E c \in Calls :
    /\ IsBash(c) /\ pc[c] = "done" /\ loc[c].delivered
    /\ loc[c].result.rejected /\ resp[c].isError /\ resp[c].kind = "error"

\* C13: when a Bridge call has timed out, the step that ends it returns the timeout
\* outcome (exitCode 124, not error-flagged) whatever becomes of the Connector call that
\* deletes the temporary files, a rejection included.
C13_TimeoutSurvivesFailedCleanup ==
  [][ \A c \in Calls :
        (pc[c] = "rm_timeout" /\ pc'[c] = "done")
          => (~resp'[c].isError /\ resp'[c].exitCode = TimeoutExitCode) ]_vars

\* C14: no user-controlled field other than execute-command's command makes the remote
\* shell run part of its text as a command or ends the data it is embedded in early.
\* Stated for the content of write-file: the here-document a write-file command carries
\* ends at its closing delimiter, and no line of the content is run by the shell.
C14_FieldsReachShellAsData ==
  \A c \in Calls :
    (op[c] = "write" /\ pc[c] = "done") => (~loc[c].early /\ loc[c].ran = <<>>)

(***************************************************************************)
(* One remote_bash call, with every Connector call resolving or rejecting  *)
(* in the end                                                              *)
(***************************************************************************)
NextBridgeLive ==
  \/ \E c \in BridgeCalls, command \in Commands, timeout \in {MaxTimeout, SlowTimeout} :
       BashCall(c, command, timeout)
  \/ \E c \in BridgeCalls : BashEnsure(c)
  \/ \E c \in BridgeCalls : BashSend(c)
  \/ \E c \in BridgeCalls : BashPoll(c)
  \/ \E c \in BridgeCalls : BashWake(c)
  \/ \E c \in BridgeCalls : BashCat(c)
  \/ \E c \in BridgeCalls : BashRm(c)
  \/ \E c \in BridgeCalls : BashRmTimeout(c)
  \/ JobStart
  \/ JobFinish
  \/ JobEcho
  \/ Tick
  \/ TimerTick

SpecBridgeLive == Init /\ [][NextBridgeLive]_vars /\ Fairness

\* the three ways a Bridge call ends
Completed(c) ==
  /\ ~resp[c].isError /\ loc[c].ret.stderr = <<>>
  /\ loc[c].fin # -1 /\ loc[c].ret.exitCode = loc[c].finCode /\ resp[c].exitCode = loc[c].finCode

TimedOutcome(c) == ~resp[c].isError /\ loc[c].ret = TimedOut /\ resp[c].exitCode = TimeoutExitCode

Failed(c) == resp[c].isError /\ resp[c].kind = "error" /\ loc[c].result.rejected

\* C15: with every Connector call resolving or rejecting in the end, every Bridge call
\* ends, in exactly one of three ways: completed with its command's exit code, timed out
\* with exit code 124, or failed with the Connector's failure; its wrapped command is
\* typed into the session at most once, and once it has ended it takes no further step.
C15_BridgeCallEndsInOneOutcome ==
  /\ \A c \in Calls : (IsBash(c) /\ pc[c] # "idle") ~> (pc[c] = "done")
  /\ [](\A c \in Calls :
          (IsBash(c) /\ pc[c] = "done")
            => /\ Completed(c) \/ TimedOutcome(c) \/ Failed(c)
               /\ ~(Completed(c) /\ TimedOutcome(c))
               /\ ~(Completed(c) /\ Failed(c))
               /\ ~(TimedOutcome(c) /\ Failed(c)))
  /\ [](\A c \in Calls : loc[c].typed <= 1)
  /\ [][ \A c \in Calls : pc[c] = "done" => pc'[c] \in {"done", "idle"} ]_vars

\* a Bridge call has ended completed, with its command's nonzero exit code, after the
\* command was typed once and a first poll had found nothing
C15_CompletedAfterPolling ==
  \E c \in Calls :
    /\ IsBash(c) /\ pc[c] = "done" /\ Completed(c) /\ loc[c].typed = 1
    /\ loc[c].ret.exitCode = 3 /\ loc[c].wake > loc[c].start

\* the session's shell has just written the exit status of the command at the head of its queue
EchoStep ==
  /\ session.queue # <<>>
  /\ Head(session.queue).stage = "ran"
  /\ session'.queue = Tail(session.queue)

\* C16: for every effective command delivered to the session, the exit-status file is
\* written once the command has finished, whatever its status (that of a failed prefixed
\* directory change included), with the status in it, and only when the output file
\* (unless a cleanup has unlinked it) holds the command's complete output; hence a call
\* whose poll observes a non-empty exit-status file has a command that has finished, and
\* the output file holds its complete output.
C16_ExitStatusWrittenAfterOutput ==
  /\ [][ EchoStep =>
           LET job == Head(session.queue)
           IN /\ HasTmp(OutputFile(job.outTok)) => tmp[OutputFile(job.outTok)] = job.run.out
              /\ tmp'[ExitCodeFile(job.exitTok)] = Digits(job.run.exit) \o <<"\n">>
              /\ loc[job.owner].fin # -1 ]_vars
  /\ [](\A c \in Calls :
          (IsBash(c) /\ pc[c] = "cat")
            => /\ loc[c].fin # -1
               /\ HasTmp(OutputFile(loc[c].outTok))
               /\ tmp[OutputFile(loc[c].outTok)] = loc[c].finOut)

(***************************************************************************)
(* A remote_cd call and a file operation in flight together                *)
(***************************************************************************)
\* slot 1 takes the change-directory calls, slot 2 the file operations
NextRace ==
  \/ \E p \in {<<"/", "a">>, <<"b">>} : CdCall(1, p)
  \/ CdReturn(1)
  \/ Respond(1)
  \/ ReadCall(2, <<"f">>, 0, 0)
  \/ ReadReturn(2)
  \/ WriteCall(2, <<"f">>, <<"b">>)
  \/ WriteReturn(2)
  \/ EditCall(2, <<"f">>, <<"a">>, <<"b">>)
  \/ EditRead(2)
  \/ EditWrite(2)
  \/ Respond(2)

SpecRace == Init /\ [][NextRace]_vars

FileOps == {"read", "write", "edit"}

\* call c is between its request and the delivery of its response
InFlight(c) == pc[c] # "idle"

\* `used` is the path P resolved against the Working Directory State S
ResolvedAgainst(used, P, S) ==
  used = IF StartsWithSlash(P) \/ ~Truthy(S) THEN P ELSE S \o <<"/">> \o P

\* C17: when a change-directory call and a read, write or edit are in flight together,
\* the interleaving decides which Working Directory State the file operation resolves
\* its relative path against: the old one when its handler is entered before the
\* change-directory call has set the state, the new one when it is entered after; both
\* happen.
C17_FileOpSeesOldOrNewCwd ==
  [][ \A c \in Calls, d \in Calls :
        ( /\ op[d] = "cd" /\ InFlight(d) /\ pc'[d] = pc[d]
          /\ pc[c] = "idle" /\ pc'[c] # "idle" /\ op'[c] \in FileOps )
          => IF pc[d] = "done"
             THEN ResolvedAgainst(loc'[c].path, arg'[c].path, cwd)
             ELSE ResolvedAgainst(loc'[c].path, arg'[c].path, loc[d].cwdSeen) ]_vars

\* a file operation in flight resolved its path against the old state, and the
\* change-directory call it overlaps has since set a new one
C17_ResolvedAgainstOld ==
  \E c \in Calls, d \in Calls :
    /\ op[d] = "cd" /\ pc[d] = "done" /\ ~resp[d].isError /\ cwd # loc[d].cwdSeen
    /\ op[c] \in FileOps /\ InFlight(c) /\ pc[c] # "done"
    /\ loc[c].cwdSeen = loc[d].cwdSeen
    /\ loc[c].path = <<"/", "a", "/", "f">> /\ cwd = <<"/", "a", "/", "b">>

\* a file operation in flight resolved its path against the new state, set by a
\* change-directory call whose response is still on its way
C17_ResolvedAgainstNew ==
  \E c \in Calls, d \in Calls :
    /\ op[d] = "cd" /\ pc[d] = "done" /\ ~resp[d].isError /\ cwd # loc[d].cwdSeen
    /\ op[c] \in FileOps /\ InFlight(c) /\ pc[c] # "done"
    /\ loc[c].cwdSeen = cwd
    /\ loc[c].path = <<"/", "a", "/", "b", "/", "f">> /\ loc[d].cwdSeen = <<"/", "a">>

(***************************************************************************)
(* remote_bash calls in two slots and the session they share               *)
(***************************************************************************)
\* one call in each slot, one after the other or in flight together
NextSession ==
  \/ \E c \in {1, 2} : BashCall(c, CommandOf(c), MaxTimeout)
  \/ \E c \in {1, 2} : BashEnsure(c)
  \/ \E c \in {1, 2} : BashSend(c)
  \/ \E c \in {1, 2} : BashPoll(c)
  \/ \E c \in {1, 2} : BashWake(c)
  \/ \E c \in {1, 2} : BashCat(c)
  \/ \E c \in {1, 2} : BashRm(c)
  \/ \E c \in {1, 2} : BashRmTimeout(c)
  \/ JobStart
  \/ JobFinish
  \/ JobEcho
  \/ Tick

SpecSession == Init /\ [][NextSession]_vars

\* C18: whatever the sequence or interleaving of Bridge calls, the host holds at most one
\* session of the configured name; a wrapped command is delivered only to a session that
\* exists; the session comes to exist only in the ensure-session step of a call that
\* finds it absent; and no step destroys it.
C18_OneSessionNeverDestroyed ==
  /\ [](session.count <= 1 /\ (session.exists <=> session.count = 1))
  /\ [](session.queue # <<>> => session.exists)
  /\ [](\A c \in Calls : loc[c].delivered => session.exists)
  /\ [][ (~session.exists /\ session'.exists)
           => \E c \in Calls : pc[c] = "ensure" /\ pc'[c] = "send" ]_vars
  /\ [][ session.exists => (session'.exists /\ session'.count >= session.count) ]_vars

\* two Bridge calls in flight found the session absent; the first made it, the
\* second's ensure-session step found it there, and both commands were delivered
C18_SecondCallFindsSession ==
  /\ session.count = 1 /\ Len(session.queue) = 2
  /\ \A c \in {1, 2} : IsBash(c) /\ loc[c].delivered /\ pc[c] = "poll"

\* call d is a Bridge call still waiting for its command
Waiting(d) == IsBash(d) /\ pc[d] \notin {"idle", "done"}

\* C19: with Bridge calls in flight together on the shared session, every call that
\* completes returns the exit code and the output of its own command, never those of
\* another call; and the cleanup of one call removes no temporary file that another call
\* in flight is still waiting on.
C19_CallsOwnTheirResults ==
  /\ [](\A c \in Calls :
          (Returned(c) /\ loc[c].ret # TimedOut)
            => /\ loc[c].ret.exitCode = arg[c].command.exit
               /\ loc[c].ret.stdout = arg[c].command.out)
  /\ [][ \A c \in Calls, d \in Calls :
           ( /\ c # d /\ pc[c] \in {"rm", "rm_timeout"} /\ pc'[c] = "done" /\ Waiting(d) )
             => /\ HasTmp(OutputFile(loc[d].outTok)) => OutputFile(loc[d].outTok) \in DOMAIN tmp'
                /\ HasTmp(ExitCodeFile(loc[d].exitTok)) => ExitCodeFile(loc[d].exitTok) \in DOMAIN tmp' ]_vars

(***************************************************************************)
(* Two remote_edit calls, or a remote_edit and a remote_write, on one file *)
(***************************************************************************)
\* the file holds the two targets, each once
InitLost ==
  /\ cwd = Null
  /\ verified = FALSE
  /\ InitCalls
  /\ clock = 0
  /\ dirs = InitDirs
  /\ files = [f \in {TheFile} |-> <<"a", "c">>]
  /\ tmp = <<>>
  /\ session = [exists |-> FALSE, count |-> 0, queue |-> <<>>]
  /\ shellDir = Home

NextLost ==
  \/ EditCall(1, <<"f">>, <<"a">>, <<"b">>)
  \/ EditCall(2, <<"f">>, <<"c">>, <<"d">>)
  \/ WriteCall(2, <<"f">>, <<"c">>)
  \/ \E c \in {1, 2} : EditRead(c)
  \/ \E c \in {1, 2} : EditWrite(c)
  \/ WriteReturn(2)
  \/ \E c \in {1, 2} : Respond(c)

SpecLost == InitLost /\ [][NextLost]_vars

\* C20: when edit-file reports success, the file holds what was on disk immediately
\* before the rewrite with the single occurrence of the target replaced, so that a write
\* or an edit of the same path completed between the edit's read and its rewrite is not
\* lost.  Stated up to the newline the here-document appends, for the edits whose read
\* and rewrite commands exited with status 0.
C20_EditRewritesWhatIsOnDisk ==
  [][ \A c \in Calls :
        ( /\ op[c] = "edit" /\ pc[c] = "edit_write" /\ pc'[c] = "done"
          /\ resp'[c].kind = "ok" /\ loc[c].fetchStatus = 0 /\ loc'[c].result.status = 0 )
          => LET f == RemoteAbs(loc[c].path)
                 before == files[f]
                 at == Positions(before, arg[c].old)
             IN /\ Cardinality(at) = 1
                /\ files'[f] = ReplaceAt(before, CHOOSE k \in at : TRUE, arg[c].old, arg[c].new)
                                 \o <<"\n">> ]_vars

(***************************************************************************)
(* A remote_bash call with remote_cd calls in flight beside it             *)
(***************************************************************************)
\* slot 1 takes the execute-command call, slot 2 the change-directory calls
NextShown ==
  \/ BashCall(1, CommandOf(1), MaxTimeout)
  \/ BashEnsure(1)
  \/ BashSend(1)
  \/ BashPoll(1)
  \/ BashWake(1)
  \/ BashCat(1)
  \/ BashRm(1)
  \/ BashRmTimeout(1)
  \/ JobStart
  \/ JobFinish
  \/ JobEcho
  \/ Tick
  \/ \E p \in {<<"/", "a">>, <<"b">>} : CdCall(2, p)
  \/ CdReturn(2)
  \/ Respond(2)

SpecShown == Init /\ [][NextShown]_vars

\* the working directory a response shows for the prefix the command was sent with
ShownFor(prefix) == IF prefix = Null THEN <<"(not set)">> ELSE prefix

\* C21: the working directory shown in an execute-command response is the working
\* directory the command was prefixed with in the session, also when a change-directory
\* call completes while the execute-command call is in flight.
C21_ShownDirectoryIsThePrefixUsed ==
  \A c \in Calls :
    (IsBash(c) /\ pc[c] = "done" /\ resp[c].kind = "result")
      => resp[c].cwdShown = ShownFor(loc[c].prefix)

====
